---------------------------- MODULE Spec2Model ----------------------------
(***************************************************************************)
(* A model of the wallet monitor: the state store (storage.py), the        *)
(* snapshot fetch (moralis_api.py), the transaction detector and poll      *)
(* (activity_analyzer.py), the PnL engine and the cached queries           *)
(* (analyzer.py), the notification step and the monitor task (main.py),    *)
(* and the /notifications command (commands.py, settings.py).              *)
(*                                                                         *)
(* Quantities and prices are Python floats in the source.  They are        *)
(* modelled as exact integers (a quantity in thousandths where the 0.1%    *)
(* threshold matters), and a quotient as an exact fraction num/den, so     *)
(* that every comparison of the source is decided exactly.                 *)
(***************************************************************************)
EXTENDS Integers, Sequences, FiniteSets, TLC

\* TLC keeps the fields of a record in the order in which it first met their
\* names.  Every record of the module lists its fields in this order, so that a
\* record value is in its stored form as written and is never reordered while
\* two workers read it.
FieldOrder ==
    [kind |-> 0, exc |-> 0, num |-> 0, den |-> 0, tx |-> 0,
     id |-> 0, wallet_address |-> 0, token_id |-> 0, symbol |-> 0,
     amount |-> 0, price |-> 0, chain |-> 0, amount_change |-> 0,
     price_usd |-> 0, total_value_usd |-> 0, transaction_type |-> 0,
     timestamp |-> 0, last_updated |-> 0, wallet |-> 0, balance |-> 0,
     balances |-> 0, prev |-> 0, now |-> 0, op |-> 0, sell_tx |-> 0,
     detected |-> 0, result |-> 0, outcome |-> 0, chat_id |-> 0,
     pnl |-> 0, qty |-> 0, lots |-> 0, total |-> 0, value |-> 0,
     chats |-> 0, available |-> 0, response |-> 0, log |-> 0, pc |-> 0,
     listed |-> 0, attempted |-> 0, retry_count |-> 0, failed |-> 0,
     cache |-> 0, cached |-> 0, read |-> 0, limit |-> 0, key |-> 0,
     state |-> 0]

VARIABLES
    wallets,               \* table wallets: the set of tracked addresses
    token_states,          \* table token_states: the set of its rows
    transactions,          \* table transactions, in rowid order
    clock,                 \* int(datetime.now().timestamp())
    notification_chat_ids, \* WalletMonitorBot.notification_chat_ids
    detect_call,           \* the last call of _detect_transaction and its result
    call,                  \* the last call of an operation and its result
    outbox,                \* the messages the notifier has sent (none so far)
    polls,                 \* the calls of analyze_wallet so far, with their outcome
    monitor,               \* the task monitor_wallets: its place and its locals
    price_cache,           \* the lru_cache of MoralisAPI.get_token_price: its keys
    notifications_enabled, \* table bot_settings: column notifications_enabled
    analyzer_cache         \* AnalyzerExtended._cache: key, value, time written

vars == <<wallets, token_states, transactions, clock, notification_chat_ids,
          detect_call, call, outbox, polls, monitor, price_cache,
          notifications_enabled, analyzer_cache>>

-----------------------------------------------------------------------------
(* Bounds of the model *)

MaxClock == 2
MaxLog == 3
MaxPolls == 2

(* Program constants *)

\* SIGNIFICANT_CHANGE_THRESHOLD = 0.001 = ThresholdNum / ThresholdDen
ThresholdNum == 1
ThresholdDen == 1000
\* get_recent_transactions(..., limit: int = 100)
DefaultLimit == 100
\* if tx.total_value_usd < 100: continue
MinNotifyValue == 100

-----------------------------------------------------------------------------
(* Python values *)

NoneV == [kind |-> "None"]
\* a coroutine object: the value of calling an async def without await
Coroutine == [kind |-> "coroutine"]
Raise(e) == [kind |-> "raise", exc |-> e]
Float(n, d) == [kind |-> "float", num |-> n, den |-> d]

\* bool(x) of the values that reach a truth test: None and an empty list are
\* false, a dict with keys, a coroutine object and a non-empty list are true
Truthy(x) == x # NoneV /\ x # <<>> /\ x # [kind |-> "list", value |-> <<>>]

Abs(x) == IF x < 0 THEN -x ELSE x

RECURSIVE GCD(_, _)
GCD(a, b) == IF b = 0 THEN a ELSE GCD(b, a % b)

\* the float n / d (d > 0), kept in lowest terms: equal quotients are one value
Frac(n, d) == Float(n \div GCD(Abs(n), d), d \div GCD(Abs(n), d))

\* a + b of two floats, over the least common denominator
RatAdd(a, b) ==
    LET l == (a.den \div GCD(a.den, b.den)) * b.den
    IN Frac(a.num * (l \div a.den) + b.num * (l \div b.den), l)

\* str.lower() on the addresses of the model
Lower(a) == IF a = "0xAB" THEN "0xab" ELSE a

Addresses == {"0xAB", "0xcd"}
Tokens == {"T1", "T2"}
SymbolOf(t) == IF t = "T1" THEN "AAA" ELSE "BBB"

-----------------------------------------------------------------------------
(* _detect_transaction (activity_analyzer.py) *)

WalletTransaction(w, bal, amount, total, type, now) ==
    [wallet_address |-> w, token_id |-> bal.id, symbol |-> bal.symbol,
     chain |-> bal.chain, amount_change |-> amount, price_usd |-> bal.price,
     total_value_usd |-> total, transaction_type |-> type, timestamp |-> now]

Return(tx) == [kind |-> "tx", tx |-> tx]

\* mutant: a token seen for the first time is reported even with no quantity
NewTokenPurchase_ReportsZero(wallet_address, current_balance, now) ==
    IF current_balance.amount >= 0
    THEN Return(WalletTransaction(wallet_address, current_balance,
                    current_balance.amount,
                    current_balance.amount * current_balance.price, "buy", now))
    ELSE NoneV

\* mutant: the time of the call gets into the reported amount
NewTokenPurchase_AmountFromClock(wallet_address, current_balance, now) ==
    IF current_balance.amount > 0
    THEN Return(WalletTransaction(wallet_address, current_balance,
                    current_balance.amount + now,
                    (current_balance.amount + now) * current_balance.price,
                    "buy", now))
    ELSE NoneV

\* lines 61-74: the branch taken when prev_state is falsy
NewTokenPurchase(wallet_address, current_balance, now) ==
    IF current_balance.amount > 0
    THEN Return(WalletTransaction(wallet_address, current_balance,
                    current_balance.amount,
                    current_balance.amount * current_balance.price, "buy", now))
    ELSE NoneV

\* mutant: a change equal to the threshold counts as significant
SignificantChange_AtThreshold(amount_change, prev_amount) ==
    Abs(amount_change) * ThresholdDen >= prev_amount * ThresholdNum

\* line 81: abs(amount_change) > (prev_amount * SIGNIFICANT_CHANGE_THRESHOLD)
SignificantChange(amount_change, prev_amount) ==
    Abs(amount_change) * ThresholdDen > prev_amount * ThresholdNum

\* mutant: the signed change is stored instead of its magnitude
ChangeTransaction_Signed(wallet_address, current_balance, amount_change, now) ==
    Return(WalletTransaction(wallet_address, current_balance, amount_change,
               amount_change * current_balance.price,
               IF amount_change > 0 THEN "buy" ELSE "sell", now))

\* mutant: the total is the value of the whole balance, not of the change
ChangeTransaction_TotalOfBalance(wallet_address, current_balance, amount_change, now) ==
    Return(WalletTransaction(wallet_address, current_balance,
               Abs(amount_change),
               current_balance.amount * current_balance.price,
               IF amount_change > 0 THEN "buy" ELSE "sell", now))

\* lines 86-102: the transaction built for a significant change
ChangeTransaction(wallet_address, current_balance, amount_change, now) ==
    LET transaction_type == IF amount_change > 0 THEN "buy" ELSE "sell"
        amount_change_abs == Abs(amount_change)
        total_value == amount_change_abs * current_balance.price
    IN Return(WalletTransaction(wallet_address, current_balance,
                  amount_change_abs, total_value, transaction_type, now))

\* prev_state is None, the dict of get_token_state, or (as analyze_wallet
\* passes it) a coroutine object, which is true and cannot be subscripted
DetectTransaction(wallet_address, current_balance, prev_state, now) ==
    IF ~Truthy(prev_state)
    THEN NewTokenPurchase(wallet_address, current_balance, now)
    ELSE IF prev_state = Coroutine
    THEN Raise("TypeError")
    ELSE LET prev_amount == prev_state.amount
             amount_change == current_balance.amount - prev_amount
         IN IF ~SignificantChange(amount_change, prev_amount)
            THEN NoneV
            ELSE ChangeTransaction(wallet_address, current_balance,
                                   amount_change, now)

-----------------------------------------------------------------------------
(* Storage (storage.py) *)

\* an optional str argument that was given
StrArg(s) == [kind |-> "str", value |-> s]

\* add_transaction: one row appended, the wallet address lower-cased
AddTransactionRow(txs, transaction) ==
    Append(txs, [transaction EXCEPT !.wallet_address = Lower(@)])

\* an int passed in the place of the optional str argument
IntArg(n) == [kind |-> "int", value |-> n]

\* `if token_id:` is false for None and for 0
ArgGiven(arg) == arg # NoneV /\ ~(arg.kind = "int" /\ arg.value = 0)

\* token_id = ? against the TEXT column: an int parameter is compared as its
\* decimal text, which is the id of no token
TokenIdEquals(token_id, arg) == arg.kind = "str" /\ token_id = arg.value

\* the WHERE clause of get_recent_transactions: token_id and transaction_type
\* filter only when given
RowMatches(row, wallet_address, token_id, transaction_type) ==
    /\ row.wallet_address = Lower(wallet_address)
    /\ ArgGiven(token_id) => TokenIdEquals(row.token_id, token_id)
    /\ transaction_type # NoneV => row.transaction_type = transaction_type.value

\* ORDER BY timestamp DESC of rows given in rowid order: row i comes out at
\* the place given by the number of rows that precede it.  Rows of one
\* timestamp come out newest rowid first (SQL leaves their order open; the
\* model's logs hold no two rows of one timestamp).
RankDesc(rows, i) ==
    1 + Cardinality({j \in 1..Len(rows) :
            \/ rows[j].timestamp > rows[i].timestamp
            \/ rows[j].timestamp = rows[i].timestamp /\ j > i})

\* rows whose timestamps never decrease are in the reverse of the order asked
\* for, which is then read off without counting
OrderByTimestampDesc(rows) ==
    IF \A i \in 1..(Len(rows) - 1) : rows[i].timestamp <= rows[i + 1].timestamp
    THEN [k \in 1..Len(rows) |-> rows[Len(rows) + 1 - k]]
    ELSE [k \in 1..Len(rows) |->
             rows[CHOOSE i \in 1..Len(rows) : RankDesc(rows, i) = k]]

\* LIMIT ?
Limit(rows, limit) ==
    SubSeq(rows, 1, IF Len(rows) < limit THEN Len(rows) ELSE limit)

GetRecentTransactions(txs, wallet_address, token_id, transaction_type, limit) ==
    LET rows == SelectSeq(txs, LAMBDA row :
                    RowMatches(row, wallet_address, token_id, transaction_type))
    IN Limit(OrderByTimestampDesc(rows), limit)

\* a row of table token_states
TokenStateRow(wallet_address, token_id, symbol, chain, amount, price_usd, now) ==
    [wallet_address |-> wallet_address, token_id |-> token_id,
     symbol |-> symbol, amount |-> amount, chain |-> chain,
     price_usd |-> price_usd, last_updated |-> now]

\* PRIMARY KEY (wallet_address, token_id, chain), compared as stored
SamePrimaryKey(row, wallet_address, token_id, chain) ==
    /\ row.wallet_address = wallet_address
    /\ row.token_id = token_id
    /\ row.chain = chain

\* mutant: a plain INSERT that meets no key constraint
UpdateTokenStateRows_Insert(rows, available, wallet_address, token_id, symbol, chain, amount, price_usd, now) ==
    IF ~available THEN rows
    ELSE rows \cup {TokenStateRow(Lower(wallet_address), token_id, symbol,
                                  chain, amount, price_usd, now)}

\* update_token_state: INSERT OR REPLACE deletes the row of the same primary
\* key and inserts the new one; when the database fails the exception is
\* caught and printed, and no row changes
UpdateTokenStateRows(rows, available, wallet_address, token_id, symbol, chain, amount, price_usd, now) ==
    IF ~available THEN rows
    ELSE {row \in rows :
             ~SamePrimaryKey(row, Lower(wallet_address), token_id, chain)}
         \cup {TokenStateRow(Lower(wallet_address), token_id, symbol, chain,
                             amount, price_usd, now)}

\* get_token_state: the dict of the row found, None when there is none, and
\* None as well when the database fails (except Exception: return None)
GetTokenStateRow(rows, available, wallet_address, token_id, chain) ==
    LET found == {row \in rows :
                     SamePrimaryKey(row, Lower(wallet_address), token_id, chain)}
    IN IF ~available THEN NoneV
       ELSE IF found = {} THEN NoneV
       ELSE LET row == CHOOSE row \in found : TRUE
            IN [kind |-> "dict", symbol |-> row.symbol, amount |-> row.amount,
                price_usd |-> row.price_usd, last_updated |-> row.last_updated]

\* mutant: the new row takes the place of the last one
AddTransactionGuarded_Overwrite(txs, available, transaction) ==
    IF ~available THEN txs
    ELSE IF Len(txs) = 0 THEN AddTransactionRow(txs, transaction)
    ELSE [txs EXCEPT ![Len(txs)] =
             [transaction EXCEPT !.wallet_address = Lower(@)]]

\* add_transaction on a database that may fail: the exception is caught and
\* printed, the caller is told nothing
AddTransactionGuarded(txs, available, transaction) ==
    IF ~available THEN txs ELSE AddTransactionRow(txs, transaction)

\* add_wallet: INSERT of the lower-cased address; False on IntegrityError
\* (the address is there already) and on any other failure
AddWalletRows(ws, available, address) ==
    IF ~available \/ Lower(address) \in ws THEN ws
    ELSE ws \cup {Lower(address)}

AddWalletResult(ws, available, address) ==
    available /\ Lower(address) \notin ws

\* remove_wallet: DELETE FROM wallets WHERE address = lower(address); the
\* rows of the other tables stay
RemoveWalletRows(ws, available, address) ==
    IF ~available THEN ws ELSE ws \ {Lower(address)}

\* cursor.rowcount > 0
RemoveWalletResult(ws, available, address) ==
    available /\ Lower(address) \in ws

\* get_tracked_wallets, awaited: the addresses, [] when the database fails
GetTrackedWallets(ws, available) == IF available THEN ws ELSE {}

-----------------------------------------------------------------------------
(* AnalyzerExtended (analyzer.py) and ActivityAnalyzer.calculate_pnl *)

\* sum(tx.amount_change for tx in txs[lo..hi]), by halves
RECURSIVE SumAmountChange(_, _, _)
SumAmountChange(txs, lo, hi) ==
    IF lo > hi THEN 0
    ELSE IF lo = hi THEN txs[lo].amount_change
    ELSE SumAmountChange(txs, lo, (lo + hi) \div 2)
         + SumAmountChange(txs, (lo + hi) \div 2 + 1, hi)

\* sum(tx.total_value_usd for tx in txs[lo..hi]), by halves
RECURSIVE SumTotalValue(_, _, _)
SumTotalValue(txs, lo, hi) ==
    IF lo > hi THEN 0
    ELSE IF lo = hi THEN txs[lo].total_value_usd
    ELSE SumTotalValue(txs, lo, (lo + hi) \div 2)
         + SumTotalValue(txs, (lo + hi) \div 2 + 1, hi)

\* mutant: the price of the most recent buy is the cost basis
AnalyzerExtended_calculate_pnl_LastBuy(txs, sell_tx) ==
    LET buy_txs == GetRecentTransactions(txs, sell_tx.wallet_address,
                       StrArg(sell_tx.token_id), StrArg("buy"), DefaultLimit)
    IN IF Len(buy_txs) = 0 THEN Float(0, 1)
       ELSE Frac((sell_tx.price_usd - buy_txs[1].price_usd)
                      * Abs(sell_tx.amount_change), 1)

\* mutant: the part of the sale that exceeds the bought quantity gets a zero
\* cost basis
AnalyzerExtended_calculate_pnl_ZeroBasis(txs, sell_tx) ==
    LET buy_txs == GetRecentTransactions(txs, sell_tx.wallet_address,
                       StrArg(sell_tx.token_id), StrArg("buy"), DefaultLimit)
        total_amount == SumAmountChange(buy_txs, 1, Len(buy_txs))
        total_value == SumTotalValue(buy_txs, 1, Len(buy_txs))
        sell_amount == Abs(sell_tx.amount_change)
        matched == IF sell_amount < total_amount THEN sell_amount ELSE total_amount
    IN IF Len(buy_txs) = 0 THEN Float(0, 1)
       ELSE Frac((sell_tx.price_usd * total_amount - total_value) * matched
                     + sell_tx.price_usd * (sell_amount - matched) * total_amount,
                 total_amount)

\* AnalyzerExtended.calculate_pnl: (sell price - average buy price) * amount,
\* the average taken over the buys get_recent_transactions returns
AnalyzerExtended_calculate_pnl(txs, sell_tx) ==
    LET buy_txs == GetRecentTransactions(txs, sell_tx.wallet_address,
                       StrArg(sell_tx.token_id), StrArg("buy"), DefaultLimit)
        total_amount == SumAmountChange(buy_txs, 1, Len(buy_txs))
        total_value == SumTotalValue(buy_txs, 1, Len(buy_txs))
        sell_amount == Abs(sell_tx.amount_change)
    IN IF Len(buy_txs) = 0 THEN Float(0, 1)
       ELSE IF total_amount > 0
       THEN \* (price - total_value / total_amount) * sell_amount
            Frac((sell_tx.price_usd * total_amount - total_value) * sell_amount,
                 total_amount)
       ELSE Frac(sell_tx.price_usd * sell_amount, 1)

\* AnalyzerExtended.calculate_total_pnl: the loop adds calculate_pnl(tx) for
\* the rows that are sells, newest first
RECURSIVE TotalPnlLoop(_, _, _)
TotalPnlLoop(txs, sells, n) ==
    IF n = 0 THEN Float(0, 1)
    ELSE RatAdd(TotalPnlLoop(txs, sells, n - 1),
                AnalyzerExtended_calculate_pnl(txs, sells[n]))

AnalyzerExtended_calculate_total_pnl(txs, wallet_address) ==
    LET rows == GetRecentTransactions(txs, wallet_address, NoneV, NoneV,
                                      DefaultLimit)
        sells == SelectSeq(rows, LAMBDA tx : tx.transaction_type = "sell")
    IN TotalPnlLoop(txs, sells, Len(sells))

\* ActivityAnalyzer.calculate_pnl: get_recent_transactions is called without
\* await, so recent_transactions is a coroutine object and the list
\* comprehension over it raises TypeError
ActivityAnalyzer_calculate_pnl(txs, transaction) ==
    IF transaction.transaction_type # "sell" THEN NoneV
    ELSE LET recent_transactions == Coroutine
         IN IF recent_transactions = Coroutine THEN Raise("TypeError")
            ELSE NoneV

-----------------------------------------------------------------------------
(* WalletMonitorBot.process_transactions (main.py) *)

\* the message of one transaction: the PnL line is present iff pnl is not None
RECURSIVE ProcessTransactionsLoop(_, _, _, _)
ProcessTransactionsLoop(txs, detected, chat_ids, n) ==
    IF n = 0 THEN <<>>
    ELSE LET tx == detected[n]
             before == ProcessTransactionsLoop(txs, detected, chat_ids, n - 1)
             pnl == IF tx.transaction_type = "sell"
                    THEN AnalyzerExtended_calculate_pnl(txs, tx)
                    ELSE NoneV
         IN IF tx.total_value_usd < MinNotifyValue THEN before
            ELSE IF chat_ids = {} THEN before
            ELSE Append(before, [tx |-> tx, pnl |-> pnl, chats |-> chat_ids])

-----------------------------------------------------------------------------
(* The detector applied to inputs drawn from bounded sets *)

BalanceOn(t, a, p, c) ==
    [id |-> t, symbol |-> SymbolOf(t), amount |-> a, price |-> p, chain |-> c]
\* get_token_balances(address) is called with its default chain, "eth"
Balance(t, a, p) == BalanceOn(t, a, p, "eth")
TokenStateDict(t, a, p, u) ==
    [kind |-> "dict", symbol |-> SymbolOf(t), amount |-> a, price_usd |-> p,
     last_updated |-> u]

SnapshotAmounts == {-1000, 0, 1, 2, 999, 1000, 1001, 1002, 2000, 2002, 2003}
PriorAmounts == {-1000, 0, 1, 2, 1000, 2000}
DetectPrices == {100, 120}

DetectPriors ==
    {NoneV, Coroutine} \cup
    {TokenStateDict("T1", a, p, 0) : a \in PriorAmounts, p \in DetectPrices}

NoCall == [kind |-> "idle"]

\* monitor_wallets before its first pass: retry_count = 0 (main.py, line 93)
MonitorInit ==
    [pc |-> "listing", listed |-> {}, attempted |-> <<>>, retry_count |-> 0,
     failed |-> FALSE]

Detect(w, bal, prev) ==
    /\ detect_call' = [kind |-> "call", wallet |-> w, balance |-> bal,
                       prev |-> prev, now |-> clock,
                       result |-> DetectTransaction(w, bal, prev, clock)]
    /\ UNCHANGED <<wallets, token_states, transactions, clock,
                   notification_chat_ids, call, outbox, polls, monitor,
                   price_cache,
                   notifications_enabled, analyzer_cache>>

Tick ==
    /\ clock < MaxClock
    /\ clock' = clock + 1
    /\ UNCHANGED <<wallets, token_states, transactions, notification_chat_ids,
                   detect_call, call, outbox, polls, monitor,
                   price_cache,
                   notifications_enabled, analyzer_cache>>

EmptyStore ==
    /\ wallets = {}
    /\ token_states = {}
    /\ transactions = <<>>

InitCommon ==
    /\ EmptyStore
    /\ clock = 1
    /\ notification_chat_ids = {}
    /\ detect_call = NoCall
    /\ call = NoCall
    /\ outbox = <<>>
    /\ polls = <<>>
    /\ monitor = MonitorInit
    /\ price_cache = {}
    /\ notifications_enabled = TRUE
    /\ analyzer_cache = {}

DetectNext ==
    \/ \E w \in Addresses, a \in SnapshotAmounts, p \in DetectPrices,
          prev \in DetectPriors : Detect(w, Balance("T1", a, p), prev)
    \/ Tick

SpecDetect == InitCommon /\ [][DetectNext]_vars

\* the signed change of a call of the detector whose prior state is a dict
DetectDelta == detect_call.balance.amount - detect_call.prev.amount

\* C1: when a prior state exists and the signed change delta = snapshot
\* quantity - prior quantity exceeds the threshold (0.1% of the prior quantity)
\* in magnitude, the detector returns a transaction whose amount_change is
\* |delta|, whose kind is buy for delta > 0 and sell for delta < 0, whose price
\* is the snapshot price and whose total value is |delta| * snapshot price.
C1_SignificantChangeIsReported ==
    detect_call.kind = "call" =>
      (detect_call.prev.kind = "dict" =>
        (Abs(DetectDelta) * ThresholdDen
             > Abs(detect_call.prev.amount) * ThresholdNum =>
          /\ detect_call.result.kind = "tx"
          /\ detect_call.result.tx.amount_change = Abs(DetectDelta)
          /\ DetectDelta > 0 => detect_call.result.tx.transaction_type = "buy"
          /\ DetectDelta < 0 => detect_call.result.tx.transaction_type = "sell"
          /\ detect_call.result.tx.price_usd = detect_call.balance.price
          /\ detect_call.result.tx.total_value_usd
                 = Abs(DetectDelta) * detect_call.balance.price))

\* a decrease beyond the threshold was reported as a sell
C1_Witness ==
    /\ detect_call.kind = "call"
    /\ detect_call.prev.kind = "dict"
    /\ detect_call.prev.amount > 0
    /\ DetectDelta < 0
    /\ Abs(DetectDelta) * ThresholdDen > detect_call.prev.amount * ThresholdNum
    /\ detect_call.result.kind = "tx"
    /\ detect_call.result.tx.transaction_type = "sell"

\* C2: when no prior state exists, the detector returns a buy whose
\* amount_change is the snapshot quantity and whose total value is quantity *
\* price if the quantity is > 0, and returns no transaction if it is 0.
C2_NewTokenIsABuy ==
    detect_call.kind = "call" =>
      (detect_call.prev = NoneV =>
        /\ detect_call.balance.amount > 0 =>
             /\ detect_call.result.kind = "tx"
             /\ detect_call.result.tx.transaction_type = "buy"
             /\ detect_call.result.tx.amount_change = detect_call.balance.amount
             /\ detect_call.result.tx.total_value_usd
                    = detect_call.balance.amount * detect_call.balance.price
        /\ detect_call.balance.amount = 0 => detect_call.result = NoneV)

\* a token without prior state and with a positive quantity was reported
C2_Witness ==
    /\ detect_call.kind = "call"
    /\ detect_call.prev = NoneV
    /\ detect_call.balance.amount > 0
    /\ detect_call.result.kind = "tx"

\* C3: noise suppression: for a prior quantity P > 0 and a snapshot quantity Q
\* with |Q - P| <= P * threshold, equality included, the detector returns no
\* transaction.
C3_NoiseIsSuppressed ==
    detect_call.kind = "call" =>
      (detect_call.prev.kind = "dict" =>
        (/\ detect_call.prev.amount > 0
         /\ Abs(DetectDelta) * ThresholdDen
                <= detect_call.prev.amount * ThresholdNum
         => detect_call.result = NoneV))

\* a non-zero change of exactly 0.1% of the prior quantity was suppressed
C3_Witness ==
    /\ detect_call.kind = "call"
    /\ detect_call.prev.kind = "dict"
    /\ detect_call.prev.amount > 0
    /\ DetectDelta # 0
    /\ Abs(DetectDelta) * ThresholdDen = detect_call.prev.amount * ThresholdNum
    /\ detect_call.result = NoneV


\* the result of the last call of the detector had the call been made at
\* second now
DetectAgainAt(now) ==
    DetectTransaction(detect_call.wallet, detect_call.balance,
                      detect_call.prev, now)

\* a result without the second in which it was made
Untimed(result) ==
    IF result.kind = "tx"
    THEN Return([result.tx EXCEPT !.timestamp = 0])
    ELSE result

-----------------------------------------------------------------------------
(* The PnL engine applied to logs written by Storage.add_transaction *)

ChatIds == {7}

\* the transactions offered to add_transaction: <<wallet, token, chain, kind,
\* amount, price>>; the detector produced each with total = amount * price
PnlInputs ==
    {<<"0xAB", "T1", "eth", "buy", 10, 1>>,
     <<"0xAB", "T1", "eth", "buy", 10, 2>>,
     <<"0xAB", "T1", "eth", "sell", 15, 3>>,
     <<"0xAB", "T1", "eth", "sell", 1, 120>>,
     <<"0xAB", "T1", "bsc", "buy", 10, 2>>,
     <<"0xAB", "T2", "eth", "buy", 10, 2>>,
     <<"0xcd", "T1", "eth", "buy", 10, 2>>}

InputTransaction(in, now) ==
    WalletTransaction(in[1], BalanceOn(in[2], in[5], in[6], in[3]),
                      in[5], in[5] * in[6], in[4], now)

\* a log one row short of the default LIMIT: a buy, a sell of a part of it,
\* and buys from then on
PreFillLen == DefaultLimit - 1
PreFill ==
    [i \in 1..PreFillLen |->
        AddTransactionRow(<<>>,
            InputTransaction(IF i = 2
                             THEN <<"0xAB", "T1", "eth", "sell", 5, 3>>
                             ELSE <<"0xAB", "T1", "eth", "buy", 10, 1>>, i))[1]]

\* the rows added since the initial state
Added ==
    IF Len(transactions) >= PreFillLen
    THEN Len(transactions) - PreFillLen
    ELSE Len(transactions)

\* Storage.add_transaction, at a second of its own
AddTransaction(in) ==
    /\ Added < MaxLog
    /\ transactions' = AddTransactionRow(transactions, InputTransaction(in, clock))
    /\ clock' = clock + 1
    /\ call' = NoCall
    /\ UNCHANGED <<wallets, token_states, notification_chat_ids, detect_call,
                   outbox, polls, monitor,
                   price_cache,
                   notifications_enabled, analyzer_cache>>

\* message_handler, '/start': the chat subscribes to the notifications
StartCommand(chat_id) ==
    /\ notification_chat_ids' = notification_chat_ids \cup {chat_id}
    /\ UNCHANGED <<wallets, token_states, transactions, clock, detect_call,
                   call, outbox, polls, monitor,
                   price_cache,
                   notifications_enabled, analyzer_cache>>

SellRows == {i \in 1..Len(transactions) :
                transactions[i].transaction_type = "sell"}

CalculatePnl(i) ==
    /\ call' = [kind |-> "call", op |-> "calculate_pnl",
                sell_tx |-> transactions[i],
                result |-> AnalyzerExtended_calculate_pnl(transactions,
                                                          transactions[i])]
    /\ UNCHANGED <<wallets, token_states, transactions, clock,
                   notification_chat_ids, detect_call, outbox, polls, monitor,
                   price_cache,
                   notifications_enabled, analyzer_cache>>

ActivityCalculatePnl(i) ==
    /\ call' = [kind |-> "call", op |-> "ActivityAnalyzer.calculate_pnl",
                sell_tx |-> transactions[i],
                result |-> ActivityAnalyzer_calculate_pnl(transactions,
                                                          transactions[i])]
    /\ UNCHANGED <<wallets, token_states, transactions, clock,
                   notification_chat_ids, detect_call, outbox, polls, monitor,
                   price_cache,
                   notifications_enabled, analyzer_cache>>

CalculateTotalPnl(w) ==
    /\ call' = [kind |-> "call", wallet |-> w, op |-> "calculate_total_pnl",
                result |-> AnalyzerExtended_calculate_total_pnl(transactions, w)]
    /\ UNCHANGED <<wallets, token_states, transactions, clock,
                   notification_chat_ids, detect_call, outbox, polls, monitor,
                   price_cache,
                   notifications_enabled, analyzer_cache>>

\* process_transactions on the transactions the last poll detected and logged
ProcessTransactions(k) ==
    /\ k <= Added
    /\ LET detected == SubSeq(transactions, Len(transactions) - k + 1,
                              Len(transactions))
       IN call' = [kind |-> "call", op |-> "process_transactions",
                   detected |-> detected,
                   result |-> ProcessTransactionsLoop(transactions, detected,
                                  notification_chat_ids, Len(detected))]
    /\ UNCHANGED <<wallets, token_states, transactions, clock,
                   notification_chat_ids, detect_call, outbox, polls, monitor,
                   price_cache,
                   notifications_enabled, analyzer_cache>>

PnlInit ==
    /\ wallets = {}
    /\ token_states = {}
    /\ \/ transactions = <<>> /\ clock = 1
       \/ transactions = PreFill /\ clock = PreFillLen + 1
    /\ notification_chat_ids = {}
    /\ detect_call = NoCall
    /\ call = NoCall
    /\ outbox = <<>>
    /\ polls = <<>>
    /\ monitor = MonitorInit
    /\ price_cache = {}
    /\ notifications_enabled = TRUE
    /\ analyzer_cache = {}

PnlNext ==
    \/ \E in \in PnlInputs : AddTransaction(in)
    \/ \E chat_id \in ChatIds : StartCommand(chat_id)
    \/ \E i \in SellRows : CalculatePnl(i)
    \/ \E i \in SellRows : ActivityCalculatePnl(i)
    \/ \E w \in Addresses : CalculateTotalPnl(w)
    \/ \E k \in 1..2 : ProcessTransactions(k)

SpecPnl == PnlInit /\ [][PnlNext]_vars

-----------------------------------------------------------------------------
(* The PnL claims.  The reference computations below follow the FIFO policy *)
(* of the specification; they are what the claims are compared against, not *)
(* a model of the code.                                                     *)

IsPnlCall == call.kind = "call" /\ call.op = "calculate_pnl"

\* rows of the sale's wallet, token and chain
SameKey(a, b) ==
    /\ a.wallet_address = b.wallet_address
    /\ a.token_id = b.token_id
    /\ a.chain = b.chain

LotOf(tx) == [price |-> tx.price_usd, qty |-> tx.amount_change]

\* FIFO consumption of qty from the oldest lot forward at sell price sp: the
\* PnL of the matched part, the unmatched rest, the lots left
RECURSIVE Consume(_, _, _)
Consume(lots, qty, sp) ==
    IF qty = 0 \/ Len(lots) = 0
    THEN [pnl |-> 0, qty |-> qty, lots |-> lots]
    ELSE IF lots[1].qty > qty
    THEN [pnl |-> (sp - lots[1].price) * qty, qty |-> 0,
          lots |-> <<[lots[1] EXCEPT !.qty = @ - qty]>> \o Tail(lots)]
    ELSE LET rest == Consume(Tail(lots), qty - lots[1].qty, sp)
         IN [pnl |-> (sp - lots[1].price) * lots[1].qty + rest.pnl,
             qty |-> rest.qty, lots |-> rest.lots]

\* the lots after the rows from j on, rows[j] a sell: the sell consumes, the
\* buys up to the next sell are appended
RECURSIVE ReplayFrom(_, _, _)
ReplayFrom(rows, lots, j) ==
    IF j > Len(rows) THEN lots
    ELSE LET left == Consume(lots, rows[j].amount_change, rows[j].price_usd).lots
             later == {x \in (j + 1)..Len(rows) :
                          rows[x].transaction_type = "sell"}
             next == IF later = {} THEN Len(rows) + 1
                     ELSE CHOOSE x \in later : \A y \in later : x <= y
         IN ReplayFrom(rows,
                left \o [x \in 1..(next - j - 1) |-> LotOf(rows[j + x])],
                next)

\* the open lots of the key of key_tx after rows 1..n of the log: the buys
\* before the key's first sell are all open, the rest is replayed in order
OpenLots(txs, key_tx, n) ==
    LET rows == SelectSeq(SubSeq(txs, 1, n), LAMBDA t : SameKey(t, key_tx))
        sells == {j \in 1..Len(rows) : rows[j].transaction_type = "sell"}
        k == IF sells = {} THEN Len(rows) + 1
             ELSE CHOOSE j \in sells : \A j2 \in sells : j <= j2
    IN ReplayFrom(rows, [j \in 1..(k - 1) |-> LotOf(rows[j])], k)

RECURSIVE LotsQty(_, _, _)
LotsQty(lots, lo, hi) ==
    IF lo > hi THEN 0
    ELSE IF lo = hi THEN lots[lo].qty
    ELSE LotsQty(lots, lo, (lo + hi) \div 2)
         + LotsQty(lots, (lo + hi) \div 2 + 1, hi)

\* the place of the sale of the last call in the log (timestamps are distinct)
CallRow == CHOOSE i \in 1..Len(transactions) : transactions[i] = call.sell_tx
CallLots == OpenLots(transactions, call.sell_tx, CallRow - 1)
CallOpenQty == LotsQty(CallLots, 1, Len(CallLots))

\* the logged buys of the sale's wallet and token id (any chain, any time),
\* and of them the DefaultLimit newest
BuysOf(sell) ==
    {i \in 1..Len(transactions) :
        /\ transactions[i].transaction_type = "buy"
        /\ transactions[i].wallet_address = sell.wallet_address
        /\ transactions[i].token_id = sell.token_id}

RECURSIVE DropOldest(_, _)
DropOldest(rows, n) ==
    IF n <= 0 THEN rows
    ELSE DropOldest(rows \ {CHOOSE i \in rows : \A j \in rows :
                        transactions[i].timestamp <= transactions[j].timestamp},
                    n - 1)

RecentBuysOf(sell) ==
    DropOldest(BuysOf(sell), Cardinality(BuysOf(sell)) - DefaultLimit)

RECURSIVE BoughtQty(_, _, _)
BoughtQty(rows, lo, hi) ==
    IF lo > hi THEN 0
    ELSE IF lo = hi
    THEN (IF lo \in rows THEN transactions[lo].amount_change ELSE 0)
    ELSE BoughtQty(rows, lo, (lo + hi) \div 2)
         + BoughtQty(rows, (lo + hi) \div 2 + 1, hi)

RECURSIVE BoughtValue(_, _, _)
BoughtValue(rows, lo, hi) ==
    IF lo > hi THEN 0
    ELSE IF lo = hi
    THEN (IF lo \in rows THEN transactions[lo].total_value_usd ELSE 0)
    ELSE BoughtValue(rows, lo, (lo + hi) \div 2)
         + BoughtValue(rows, (lo + hi) \div 2 + 1, hi)

CallBoughtQty == BoughtQty(RecentBuysOf(call.sell_tx), 1, Len(transactions))
CallBoughtValue == BoughtValue(RecentBuysOf(call.sell_tx), 1, Len(transactions))

LogOf(ins) ==
    [i \in 1..Len(ins) |-> AddTransactionRow(<<>>, InputTransaction(ins[i], i))[1]]

\* buys (10 @ 1) then (10 @ 2), then a sell of 15 @ 3
FifoExampleLog ==
    LogOf(<< <<"0xAB", "T1", "eth", "buy", 10, 1>>,
             <<"0xAB", "T1", "eth", "buy", 10, 2>>,
             <<"0xAB", "T1", "eth", "sell", 15, 3>> >>)

C6_NoBuysNoPnl ==
    /\ IsPnlCall =>
         (BuysOf(call.sell_tx) = {} =>
            /\ call.result.kind # "raise"
            /\ call.result # Float(0, 1))
    /\ (call.kind = "call" /\ call.op = "process_transactions") =>
         \A m \in 1..Len(call.result) :
            (/\ call.result[m].tx.transaction_type = "sell"
             /\ BuysOf(call.result[m].tx) = {})
            => call.result[m].pnl = NoneV

\* oversell with at least one lot: the sale exceeds the open lots of its key
CallOversell ==
    /\ IsPnlCall
    /\ Len(CallLots) > 0
    /\ CallOpenQty < call.sell_tx.amount_change

FifoSalePnl(i) ==
    LET lots == OpenLots(transactions, transactions[i], i - 1)
        c == Consume(lots, transactions[i].amount_change,
                     transactions[i].price_usd)
    IN IF Len(lots) = 0 THEN 0
       ELSE c.pnl + transactions[i].price_usd * c.qty

RECURSIVE FifoTotal(_)
FifoTotal(sells) ==
    IF sells = {} THEN 0
    ELSE LET n == CHOOSE i \in sells : \A j \in sells : i <= j
         IN FifoSalePnl(n) + FifoTotal(sells \ {n})

\* the sells of wallet w in the log
SellsOf(w) == {i \in SellRows : transactions[i].wallet_address = Lower(w)}

\* C8: the total PnL of a wallet is the sum of the per-sale PnL over every
\* sell of the wallet's log, the sells taken in ascending timestamp order so
\* that a lot consumed by an earlier sale is no cost basis for a later one.
C8_TotalIsSumOverSalesInOrder ==
    (call.kind = "call" /\ call.op = "calculate_total_pnl") =>
        call.result = Frac(FifoTotal(SellsOf(call.wallet)), 1)

\* the rows of the sale's wallet, token and chain up to the sale's timestamp
OwnHistory(sell) ==
    SelectSeq(transactions, LAMBDA t :
        SameKey(t, sell) /\ t.timestamp <= sell.timestamp)

\* C9: the PnL of a sale depends only on the transactions of the same wallet,
\* token and chain with timestamp <= the sale's: a later buy, or a buy of the
\* token id on another chain, does not change it.
C9_PnlDependsOnOwnHistoryOnly ==
    IsPnlCall =>
        call.result = AnalyzerExtended_calculate_pnl(OwnHistory(call.sell_tx),
                                                     call.sell_tx)

-----------------------------------------------------------------------------
(* A poll of a wallet: ActivityAnalyzer.analyze_wallet on the snapshot that *)
(* get_token_balances returned                                              *)

\* one pass of the loop body.  get_token_state is called without await, so
\* prev_state is the coroutine object; a detected transaction goes to
\* self.storage.record_transaction, which Storage does not have;
\* update_token_state is called without await, so its body never runs
AnalyzeBalance(wallet_address, balance, now) ==
    LET prev_state == Coroutine
        transaction == DetectTransaction(wallet_address, balance, prev_state, now)
    IN IF transaction.kind = "raise" THEN transaction
       ELSE IF Truthy(transaction) THEN Raise("AttributeError")
       ELSE NoneV

RECURSIVE AnalyzeWalletLoop(_, _, _, _)
AnalyzeWalletLoop(wallet_address, current_balances, i, now) ==
    IF i > Len(current_balances)
    THEN [kind |-> "return", detected |-> <<>>]
    ELSE LET pass == AnalyzeBalance(wallet_address, current_balances[i], now)
         IN IF pass.kind = "raise" THEN pass
            ELSE AnalyzeWalletLoop(wallet_address, current_balances, i + 1, now)

\* the snapshots: each token absent or held, with amount > 0 and price > 0
PollAmounts == {1, 2}
PollPrices == {100, 120}
Snapshots ==
    LET t1 == {<<>>} \cup {<<Balance("T1", a, p)>> :
                              a \in PollAmounts, p \in PollPrices}
        t2 == {<<>>, <<Balance("T2", 1, 50)>>}
    IN {x \o y : x \in t1, y \in t2}

\* analyze_wallet: no pass of the loop writes to the store
AnalyzeWallet(wallet_address, current_balances) ==
    /\ Len(polls) < MaxPolls
    /\ polls' = Append(polls,
                  [wallet |-> wallet_address, balances |-> current_balances,
                   now |-> clock,
                   outcome |-> AnalyzeWalletLoop(wallet_address,
                                   current_balances, 1, clock)])
    /\ UNCHANGED <<wallets, token_states, transactions, clock,
                   notification_chat_ids, detect_call, call, outbox, monitor,
                   price_cache,
                   notifications_enabled, analyzer_cache>>

PollNext ==
    \/ \E w \in Addresses, b \in Snapshots : AnalyzeWallet(w, b)
    \/ Tick

SpecPoll == InitCommon /\ [][PollNext]_vars

\* C4: after every poll of a wallet, for each token of the snapshot the stored
\* token state holds the snapshot's quantity and price, whether or not a
\* transaction was detected for the token.
C4_StateFollowsSnapshot ==
    Len(polls) > 0 =>
      LET poll == polls[Len(polls)]
      IN \A i \in 1..Len(poll.balances) :
            LET b == poll.balances[i]
            IN \E row \in token_states :
                  /\ row.wallet_address = Lower(poll.wallet)
                  /\ row.token_id = b.id
                  /\ row.chain = b.chain
                  /\ row.amount = b.amount
                  /\ row.price_usd = b.price

\* C10: two polls of a wallet for a token never seen before, quantity q1 at
\* price p1 and then q2 < q1 at price p2, log a buy of q1 with total q1 * p1
\* and a sell of q1 - q2 with total (q1 - q2) * p2 whose PnL is
\* (q1 - q2) * (p2 - p1): 2 @ 100 then 1 @ 120 give a sell of 1, total 120,
\* PnL 20.
C10_TwoPollScenario ==
    (/\ Len(polls) = 2
     /\ polls[1].wallet = polls[2].wallet
     /\ Len(polls[1].balances) = 1
     /\ Len(polls[2].balances) = 1
     /\ polls[1].balances[1].id = polls[2].balances[1].id
     /\ polls[2].balances[1].amount < polls[1].balances[1].amount)
    => LET b1 == polls[1].balances[1]
           b2 == polls[2].balances[1]
       IN /\ Len(transactions) = 2
          /\ transactions[1].transaction_type = "buy"
          /\ transactions[1].amount_change = b1.amount
          /\ transactions[1].total_value_usd = b1.amount * b1.price
          /\ transactions[2].transaction_type = "sell"
          /\ transactions[2].amount_change = b1.amount - b2.amount
          /\ transactions[2].total_value_usd = (b1.amount - b2.amount) * b2.price
          /\ AnalyzerExtended_calculate_pnl(transactions, transactions[2])
               = Float((b1.amount - b2.amount) * (b2.price - b1.price), 1)

\* the poll before poll j of the same wallet, 0 when there is none
PreviousPoll(j) ==
    LET earlier == {i \in 1..(j - 1) :
                       Lower(polls[i].wallet) = Lower(polls[j].wallet)}
    IN IF earlier = {} THEN 0
       ELSE CHOOSE i \in earlier : \A k \in earlier : k <= i

\* C16: the sequences read-prior, detect, write-new of one (wallet, token,
\* chain) do not interleave: the prior state a detection uses is the state
\* the previous poll of the key wrote, so the poll reports what the detector
\* makes of the new balance against the previous snapshot.
C16_PriorIsThePreviousWrite ==
    \A j \in 1..Len(polls) :
      LET i == PreviousPoll(j) IN
      i > 0 =>
        \A x \in 1..Len(polls[i].balances) : \A y \in 1..Len(polls[j].balances) :
          LET was == polls[i].balances[x]
              is == polls[j].balances[y]
              expected == DetectTransaction(polls[j].wallet, is,
                              TokenStateDict(was.id, was.amount, was.price,
                                             polls[i].now),
                              polls[j].now)
          IN (was.id = is.id /\ was.chain = is.chain) =>
               /\ polls[j].outcome.kind = "return"
               /\ expected.kind = "tx" =>
                     \E d \in 1..Len(polls[j].outcome.detected) :
                         polls[j].outcome.detected[d] = expected.tx
               /\ expected = NoneV =>
                     \A d \in 1..Len(polls[j].outcome.detected) :
                         polls[j].outcome.detected[d].token_id # is.id

\* C23: the minimum-value filter is applied by the caller before it notifies,
\* not by the detector: a token first seen in a poll with a total value under
\* the minimum is reported by the detector, leaves process_transactions
\* without a notification, and is still appended to the log and followed by
\* the update of the stored state.
C23_SmallTransactionIsLoggedNotNotified ==
    Len(polls) > 0 =>
      LET poll == polls[Len(polls)]
      IN \A i \in 1..Len(poll.balances) :
            LET b == poll.balances[i]
                detected == DetectTransaction(poll.wallet, b, NoneV, poll.now)
            IN (PreviousPoll(Len(polls)) = 0
                /\ b.amount * b.price < MinNotifyValue) =>
                 /\ detected.kind = "tx"
                 /\ ProcessTransactionsLoop(transactions, <<detected.tx>>,
                                            ChatIds, 1) = <<>>
                 /\ \E k \in 1..Len(transactions) :
                       /\ transactions[k].wallet_address = Lower(poll.wallet)
                       /\ transactions[k].token_id = b.id
                       /\ transactions[k].transaction_type = "buy"
                       /\ transactions[k].amount_change = b.amount
                       /\ transactions[k].total_value_usd = b.amount * b.price
                 /\ \E row \in token_states :
                       /\ row.wallet_address = Lower(poll.wallet)
                       /\ row.token_id = b.id
                       /\ row.amount = b.amount

\* the quantity bought less the quantity sold that the log holds for a key
RECURSIVE NetLogged(_, _, _, _)
NetLogged(wallet_address, token_id, chain, n) ==
    IF n = 0 THEN 0
    ELSE LET row == transactions[n]
             rest == NetLogged(wallet_address, token_id, chain, n - 1)
         IN IF ~(/\ row.wallet_address = Lower(wallet_address)
                 /\ row.token_id = token_id
                 /\ row.chain = chain) THEN rest
            ELSE IF row.transaction_type = "buy" THEN rest + row.amount_change
            ELSE rest - row.amount_change

\* C28: for each (wallet, token, chain), after polls with successful
\* snapshots that all hold the token, the buys of the log less its sells
\* equal the quantity of the stored token state.
C28_LogSumsToStoredQuantity ==
    \A w \in Addresses, t \in Tokens :
      LET mine == {j \in 1..Len(polls) : Lower(polls[j].wallet) = Lower(w)}
          held == {j \in mine : \E i \in 1..Len(polls[j].balances) :
                                    polls[j].balances[i].id = t}
      IN (mine # {} /\ held = mine) =>
           \E row \in token_states :
              /\ row.wallet_address = Lower(w)
              /\ row.token_id = t
              /\ row.chain = "eth"
              /\ row.amount = NetLogged(w, t, "eth", Len(transactions))

-----------------------------------------------------------------------------
(* The store and a poll that fetches its snapshot from the provider *)

\* _make_request returns {} when the request fails
RequestFailed == [kind |-> "dict"]
Listed(tokens) == [kind |-> "list", value |-> tokens]

\* get_token_balances, the loop over the tokens of the response.  A token
\* with no quantity is skipped before its price is asked for.  The price comes
\* from get_token_price, an async def under lru_cache: the cache holds the
\* coroutine object of the first call, and awaiting it a second time raises
\* RuntimeError, which the loop catches and skips the token.  A token without
\* a price is skipped as well.
RECURSIVE TokenBalancesLoop(_, _, _)
TokenBalancesLoop(tokens, cache, n) ==
    IF n = 0 THEN [balances |-> <<>>, cache |-> cache]
    ELSE LET before == TokenBalancesLoop(tokens, cache, n - 1)
             token == tokens[n]
             key == <<token.id, token.chain>>
         IN IF token.amount <= 0 THEN before
            ELSE IF key \in before.cache THEN before
            ELSE IF token.price <= 0
            THEN [balances |-> before.balances,
                  cache |-> before.cache \cup {key}]
            ELSE [balances |-> Append(before.balances, token),
                  cache |-> before.cache \cup {key}]

\* get_token_balances: [] when the response is no non-empty list
GetTokenBalances(response, cache) ==
    IF response.kind # "list" \/ response.value = <<>>
    THEN [balances |-> <<>>, cache |-> cache]
    ELSE TokenBalancesLoop(response.value, cache, Len(response.value))

\* mutant: every stored token of the wallet that the snapshot lacks is sold
LogAfterAnalyze_SellsAbsent(txs, rows, wallet_address, current_balances, now) ==
    IF \E row \in rows :
          /\ row.wallet_address = Lower(wallet_address)
          /\ \A i \in 1..Len(current_balances) :
                current_balances[i].id # row.token_id
    THEN LET row == CHOOSE row \in rows :
                       /\ row.wallet_address = Lower(wallet_address)
                       /\ \A i \in 1..Len(current_balances) :
                             current_balances[i].id # row.token_id
         IN Append(txs,
                WalletTransaction(Lower(wallet_address),
                    BalanceOn(row.token_id, 0, row.price_usd, row.chain),
                    row.amount, row.amount * row.price_usd, "sell", now))
    ELSE txs

\* the log after analyze_wallet: record_transaction is no method of Storage
\* and add_transaction is not called, so no pass of the loop appends a row
LogAfterAnalyze(txs, rows, wallet_address, current_balances, now) == txs

\* the token states after analyze_wallet: update_token_state is called
\* without await, so its body never runs
StatesAfterAnalyze(rows, wallet_address, current_balances, now) == rows

MaxStored == 2

Bool(b) == [kind |-> "bool", value |-> b]

UpdateTokenState(w, t, c, a, p, available) ==
    /\ token_states' = UpdateTokenStateRows(token_states, available, w, t,
                                            SymbolOf(t), c, a, p, clock)
    /\ call' = [kind |-> "call", wallet_address |-> w, token_id |-> t,
                amount |-> a, chain |-> c, prev |-> token_states,
                op |-> "update_token_state", result |-> NoneV,
                available |-> available]
    /\ UNCHANGED <<wallets, transactions, clock, notification_chat_ids,
                   detect_call, outbox, polls, monitor, price_cache,
                   notifications_enabled, analyzer_cache>>

GetTokenState(w, t, c, available) ==
    /\ call' = [kind |-> "call", wallet_address |-> w, token_id |-> t,
                chain |-> c, op |-> "get_token_state",
                result |-> GetTokenStateRow(token_states, available, w, t, c),
                available |-> available]
    /\ UNCHANGED <<wallets, token_states, transactions, clock,
                   notification_chat_ids, detect_call, outbox, polls, monitor,
                   price_cache,
                   notifications_enabled, analyzer_cache>>

\* a transaction of the detector handed to add_transaction
StoreTransaction(w, balance, prev, available) ==
    /\ Len(transactions) < MaxStored
    /\ LET found == DetectTransaction(w, balance, prev, clock)
       IN /\ found.kind = "tx"
          /\ transactions' = AddTransactionGuarded(transactions, available,
                                                   found.tx)
          /\ call' = [kind |-> "call", tx |-> found.tx,
                      op |-> "add_transaction", result |-> NoneV,
                      available |-> available, log |-> transactions]
    /\ clock' = IF available THEN clock + 1 ELSE clock
    /\ UNCHANGED <<wallets, token_states, notification_chat_ids, detect_call,
                   outbox, polls, monitor, price_cache,
                   notifications_enabled, analyzer_cache>>

AddWallet(address, available) ==
    /\ wallets' = AddWalletRows(wallets, available, address)
    /\ call' = [kind |-> "call", wallet_address |-> address,
                op |-> "add_wallet",
                result |-> Bool(AddWalletResult(wallets, available, address)),
                available |-> available, log |-> transactions]
    /\ UNCHANGED <<token_states, transactions, clock, notification_chat_ids,
                   detect_call, outbox, polls, monitor, price_cache,
                   notifications_enabled, analyzer_cache>>

RemoveWallet(address, available) ==
    /\ wallets' = RemoveWalletRows(wallets, available, address)
    /\ call' = [kind |-> "call", wallet_address |-> address,
                prev |-> token_states, op |-> "remove_wallet",
                result |-> Bool(RemoveWalletResult(wallets, available, address)),
                available |-> available, log |-> transactions]
    /\ UNCHANGED <<token_states, transactions, clock, notification_chat_ids,
                   detect_call, outbox, polls, monitor, price_cache,
                   notifications_enabled, analyzer_cache>>

\* handle_clear_wallets: remove_wallet for every address get_tracked_wallets
\* returned
ClearWallets(available) ==
    /\ wallets' = wallets \ GetTrackedWallets(wallets, available)
    /\ call' = [kind |-> "call", prev |-> token_states,
                op |-> "clear_wallets",
                result |-> Bool(GetTrackedWallets(wallets, available) # {}),
                available |-> available, log |-> transactions]
    /\ UNCHANGED <<token_states, transactions, clock, notification_chat_ids,
                   detect_call, outbox, polls, monitor, price_cache,
                   notifications_enabled, analyzer_cache>>

\* analyze_wallet with the snapshot get_token_balances makes of the response
FetchAndAnalyze(w, response) ==
    LET fetched == GetTokenBalances(response, price_cache)
    IN /\ price_cache' = fetched.cache
       /\ token_states' = StatesAfterAnalyze(token_states, w,
                                             fetched.balances, clock)
       /\ transactions' = LogAfterAnalyze(transactions, token_states, w,
                                          fetched.balances, clock)
       /\ call' = [kind |-> "call", wallet_address |-> w,
                   balances |-> fetched.balances, prev |-> token_states,
                   op |-> "analyze_wallet",
                   outcome |-> AnalyzeWalletLoop(w, fetched.balances, 1, clock),
                   response |-> response, log |-> transactions]
       /\ UNCHANGED <<wallets, clock, notification_chat_ids, detect_call,
                      outbox, polls, monitor, notifications_enabled,
                      analyzer_cache>>

StoreKeyAddresses == {"0xAB", "0xab"}
StoreAmounts == {1, 2}
StorePriors == {NoneV, TokenStateDict("T1", 1, 100, 0),
                TokenStateDict("T1", 2, 100, 0)}
Responses ==
    {RequestFailed, Listed(<<>>)} \cup
    {Listed(<<Balance("T1", a, 100)>>) : a \in {0, 1, 2}} \cup
    {Listed(<<Balance("T1", 2, 0)>>)}

StoreNext ==
    \/ \E w \in StoreKeyAddresses, a \in StoreAmounts, available \in BOOLEAN :
          UpdateTokenState(w, "T1", "eth", a, 100, available)
    \/ \E w \in StoreKeyAddresses, available \in BOOLEAN :
          GetTokenState(w, "T1", "eth", available)
    \/ \E a \in StoreAmounts, prev \in StorePriors, available \in BOOLEAN :
          StoreTransaction("0xAB", Balance("T1", a, 100), prev, available)
    \/ \E w \in Addresses, available \in BOOLEAN : AddWallet(w, available)
    \/ \E w \in Addresses, available \in BOOLEAN : RemoveWallet(w, available)
    \/ \E available \in BOOLEAN : ClearWallets(available)
    \/ \E w \in Addresses, response \in Responses : FetchAndAnalyze(w, response)
    \/ \E w \in Addresses : CalculateTotalPnl(w)

SpecStore == InitCommon /\ [][StoreNext]_vars

IsCallOf(op) == call.kind = "call" /\ call.op = op

\* C11: when a token with stored quantity P > 0 is held with quantity exactly
\* zero at the next successful poll of the wallet, the poll emits a sell of
\* the token with amount_change = P and the stored state no longer shows P.
C11_DropToZeroIsASell ==
    (IsCallOf("analyze_wallet") /\ call.response.kind = "list") =>
      \A i \in 1..Len(call.response.value) : \A row \in call.prev :
        (/\ call.response.value[i].amount = 0
         /\ SamePrimaryKey(row, Lower(call.wallet_address),
                           call.response.value[i].id,
                           call.response.value[i].chain)
         /\ row.amount > 0)
        => /\ \E j \in (Len(call.log) + 1)..Len(transactions) :
                /\ transactions[j].token_id = row.token_id
                /\ transactions[j].transaction_type = "sell"
                /\ transactions[j].amount_change = row.amount
           /\ \A now \in token_states :
                SamePrimaryKey(now, row.wallet_address, row.token_id, row.chain)
                => now.amount # row.amount

\* C12: a failed snapshot fetch produces no sell: the poll appends nothing to
\* the log and leaves every stored token state unchanged.
C12_FailedFetchChangesNothing ==
    (IsCallOf("analyze_wallet") /\ call.response = RequestFailed) =>
      /\ transactions = call.log
      /\ token_states = call.prev

\* a fetch failed for a wallet with a stored holding, and nothing changed
C12_Witness ==
    /\ IsCallOf("analyze_wallet")
    /\ call.response = RequestFailed
    /\ \E row \in call.prev :
          row.wallet_address = Lower(call.wallet_address) /\ row.amount > 0
    /\ token_states = call.prev
    /\ transactions = call.log

\* C13: when the store is unavailable, the failure of a read of the prior
\* state or of a write is surfaced to the caller, and a failed read is not
\* taken for 'prior absent': no buy comes out for a token whose state exists.
C13_StoreFailureIsSurfaced ==
    /\ (IsCallOf("get_token_state") /\ ~call.available) =>
          /\ call.result.kind = "raise"
          /\ (\E row \in token_states :
                 SamePrimaryKey(row, Lower(call.wallet_address),
                                call.token_id, call.chain))
             => \A a \in StoreAmounts :
                   DetectTransaction(call.wallet_address,
                       BalanceOn(call.token_id, a, 100, call.chain),
                       call.result, clock).kind # "tx"
    /\ (IsCallOf("add_transaction") /\ ~call.available) =>
          call.result.kind = "raise"
    /\ (IsCallOf("update_token_state") /\ ~call.available) =>
          call.result.kind = "raise"

\* C17: every transaction in the log has
\* total_value_usd = amount_change * price_usd.
C17_TotalIsAmountTimesPrice ==
    \A i \in 1..Len(transactions) :
        transactions[i].total_value_usd
            = transactions[i].amount_change * transactions[i].price_usd

\* a buy of 1 at the price 100 was stored with total 100
C17_Witness ==
    /\ IsCallOf("add_transaction")
    /\ call.available
    /\ Len(transactions) = Len(call.log) + 1
    /\ transactions[Len(transactions)].transaction_type = "buy"
    /\ transactions[Len(transactions)].amount_change = 1
    /\ transactions[Len(transactions)].total_value_usd = 100

\* C18: every transaction of the detector stored in the log is a buy or a
\* sell and has amount_change >= 0: a sale is stored as the magnitude of the
\* decrease.
C18_KindAndMagnitude ==
    \A i \in 1..Len(transactions) :
        /\ transactions[i].transaction_type \in {"buy", "sell"}
        /\ transactions[i].amount_change >= 0

\* the sale of a decrease from 2 to 1 was stored with amount 1
C18_Witness ==
    /\ IsCallOf("add_transaction")
    /\ call.available
    /\ Len(transactions) = Len(call.log) + 1
    /\ transactions[Len(transactions)].transaction_type = "sell"
    /\ transactions[Len(transactions)].amount_change = 1

\* C19: the log is append-only: every step leaves the rows written so far as
\* they are and in their place.
C19_LogIsAppendOnly ==
    [][/\ Len(transactions') >= Len(transactions)
       /\ SubSeq(transactions', 1, Len(transactions)) = transactions]_vars

\* a wallet was removed while the log held a transaction of it, which stays
C19_Witness ==
    /\ IsCallOf("remove_wallet")
    /\ call.result.value
    /\ call.log # <<>>
    /\ transactions = call.log
    /\ \E i \in 1..Len(transactions) :
          transactions[i].wallet_address = Lower(call.wallet_address)

\* C20: token_states holds at most one row per (wallet, token, chain), the
\* wallet addresses compared without case: an update of a key that has a row
\* replaces the row.
C20_OneRowPerKey ==
    /\ \A r1 \in token_states : \A r2 \in token_states :
          (/\ Lower(r1.wallet_address) = Lower(r2.wallet_address)
           /\ r1.token_id = r2.token_id
           /\ r1.chain = r2.chain)
          => r1 = r2
    /\ (IsCallOf("update_token_state") /\ call.available) =>
          \E row \in token_states :
             /\ SamePrimaryKey(row, Lower(call.wallet_address), call.token_id,
                               call.chain)
             /\ row.amount = call.amount

\* the row written under 0xab was replaced by an update given under 0xAB
C20_Witness ==
    /\ IsCallOf("update_token_state")
    /\ call.available
    /\ call.wallet_address = "0xAB"
    /\ \E row \in call.prev :
          /\ SamePrimaryKey(row, "0xab", call.token_id, call.chain)
          /\ row.amount # call.amount
    /\ Cardinality(token_states) = 1

\* C29: removing a wallet deletes its tracking row alone: the stored token
\* states and the log are as they were, so that a poll of the wallet once it
\* is tracked again diffs each token against the state stored before the
\* removal and does not report a token it knew as a new buy.
C29_RemovalKeepsStateForTheNextPoll ==
    /\ (IsCallOf("remove_wallet") \/ IsCallOf("clear_wallets")) =>
          /\ token_states = call.prev
          /\ transactions = call.log
    /\ IsCallOf("analyze_wallet") =>
          \A i \in 1..Len(call.balances) : \A row \in call.prev :
            LET b == call.balances[i]
                expected == DetectTransaction(call.wallet_address, b,
                                [kind |-> "dict", symbol |-> row.symbol,
                                 amount |-> row.amount,
                                 price_usd |-> row.price_usd,
                                 last_updated |-> row.last_updated], clock)
            IN SamePrimaryKey(row, Lower(call.wallet_address), b.id, b.chain)
               => /\ call.outcome.kind = "return"
                  /\ expected = NoneV =>
                        \A d \in 1..Len(call.outcome.detected) :
                            call.outcome.detected[d].token_id # b.id
                  /\ expected.kind = "tx" =>
                        \E d \in 1..Len(call.outcome.detected) :
                            call.outcome.detected[d] = expected.tx

-----------------------------------------------------------------------------
(* The task monitor_wallets (main.py) beside the wallet commands *)

MaxRetries == 3

\* monitor_wallet: command_handler.analyzer is an AnalyzerExtended, which has
\* no analyze_wallet; the AttributeError is caught and False is returned
MonitorWallet(wallet_address) == FALSE

\* the addresses of a SELECT, in some order
RECURSIVE RowsOf(_)
RowsOf(ws) ==
    IF ws = {} THEN <<>>
    ELSE LET w == CHOOSE w \in ws : TRUE IN <<w>> \o RowsOf(ws \ {w})

\* the for loop of monitor_wallets over a list of addresses
RECURSIVE MonitorLoop(_, _, _)
MonitorLoop(listed, retry_count, n) ==
    IF n = 0 THEN retry_count
    ELSE LET before == MonitorLoop(listed, retry_count, n - 1)
         IN IF ~MonitorWallet(listed[n])
            THEN (IF before + 1 >= MaxRetries THEN 0 ELSE before + 1)
            ELSE 0

\* one pass of the body of 'while self.monitoring_enabled' up to its sleep.
\* get_tracked_wallets is called without await: wallets is a coroutine
\* object, which is true, and the for statement over it raises TypeError;
\* the except clause of the pass logs it and sleeps 30 seconds.
MonitorWalletsPass(tracked, retry_count) ==
    LET listed == Coroutine
    IN IF ~Truthy(listed)
       THEN [pc |-> "sleeping", listed |-> tracked, attempted |-> <<>>,
             retry_count |-> retry_count, failed |-> FALSE]
       ELSE IF listed = Coroutine
       THEN [pc |-> "sleeping", listed |-> tracked, attempted |-> <<>>,
             retry_count |-> retry_count, failed |-> TRUE]
       ELSE [pc |-> "sleeping", listed |-> tracked,
             attempted |-> RowsOf(tracked),
             retry_count |-> MonitorLoop(RowsOf(tracked), retry_count,
                                         Cardinality(tracked)),
             failed |-> FALSE]

MonitorPass ==
    /\ monitor.pc = "listing"
    /\ monitor' = MonitorWalletsPass(wallets, monitor.retry_count)
    /\ UNCHANGED <<wallets, token_states, transactions, clock,
                   notification_chat_ids, detect_call, call, outbox, polls,
                   price_cache,
                   notifications_enabled, analyzer_cache>>

\* asyncio.sleep returns: the while condition is tested again
MonitorWake ==
    /\ monitor.pc = "sleeping"
    /\ monitor' = [monitor EXCEPT !.pc = "listing"]
    /\ UNCHANGED <<wallets, token_states, transactions, clock,
                   notification_chat_ids, detect_call, call, outbox, polls,
                   price_cache,
                   notifications_enabled, analyzer_cache>>

MonitorNext ==
    \/ MonitorPass
    \/ MonitorWake
    \/ \E w \in Addresses, available \in BOOLEAN : AddWallet(w, available)
    \/ \E w \in Addresses, available \in BOOLEAN : RemoveWallet(w, available)
    \/ \E available \in BOOLEAN : ClearWallets(available)
    \/ \E chat_id \in ChatIds : StartCommand(chat_id)

SpecMonitor == InitCommon /\ [][MonitorNext]_vars

\* the event loop runs the monitor task whenever it can take a step
SpecMonitorLive ==
    SpecMonitor /\ WF_vars(MonitorPass) /\ WF_vars(MonitorWake)

Attempts(w) ==
    Cardinality({i \in 1..Len(monitor.attempted) : monitor.attempted[i] = w})

\* C14: within one cycle an error on one wallet does not keep the others from
\* being checked: every wallet of the cycle's list is attempted exactly once.
C14_EveryListedWalletIsAttempted ==
    monitor.pc = "sleeping" =>
        \A w \in monitor.listed : Attempts(w) = 1

\* C15: the monitor loop does not end on an error: after a failed pass it
\* comes to another pass, in which a wallet of the failed pass that is still
\* tracked is checked.
C15_FailedWalletIsCheckedAgain ==
    \A w \in {Lower(a) : a \in Addresses} :
        (monitor.failed /\ w \in monitor.listed)
            ~> (w \notin wallets \/ Attempts(w) > 0)

\* C30: a cycle of the poll loop checks exactly the wallets that were tracked
\* when the cycle read the list, neither fewer nor more; a wallet added or
\* removed later is first seen by the next cycle.
C30_CycleChecksExactlyTheListedWallets ==
    monitor.pc = "sleeping" =>
        {monitor.attempted[i] : i \in 1..Len(monitor.attempted)}
            = monitor.listed


-----------------------------------------------------------------------------
(* The /notifications command (commands.py, settings.py) beside the         *)
(* notification step                                                        *)

\* state.lower() of the arguments the command is given
StateLower(state) ==
    IF state = "OFF" THEN "off" ELSE IF state = "ON" THEN "on" ELSE state

\* set_notifications: the UPDATE of the single row of bot_settings
SetNotificationsRow(stored, enabled) == enabled

\* handle_notifications: an argument other than on/off changes nothing
HandleNotifications(state) ==
    LET valid == StateLower(state) \in {"on", "off"}
        enabled == StateLower(state) = "on"
    IN /\ notifications_enabled' =
              IF valid THEN SetNotificationsRow(notifications_enabled, enabled)
              ELSE notifications_enabled
       /\ call' = [kind |-> "call", op |-> "notifications",
                   result |-> Bool(valid), state |-> state]
       /\ UNCHANGED <<wallets, token_states, transactions, clock,
                      notification_chat_ids, detect_call, outbox, polls,
                      monitor, price_cache, analyzer_cache>>

NotificationArgs == {"on", "off", "OFF", ""}

NotifyNext ==
    \/ \E in \in PnlInputs : AddTransaction(in)
    \/ \E chat_id \in ChatIds : StartCommand(chat_id)
    \/ \E state \in NotificationArgs : HandleNotifications(state)
    \/ \E k \in 1..2 : ProcessTransactions(k)

SpecNotify == InitCommon /\ [][NotifyNext]_vars

\* C24: after '/notifications off' has succeeded, no transaction notification
\* is sent until '/notifications on' succeeds: process_transactions sends
\* nothing while the setting is off.
C24_NothingIsSentWhileOff ==
    (IsCallOf("process_transactions") /\ ~notifications_enabled) =>
        call.result = <<>>

-----------------------------------------------------------------------------
(* The cache of AnalyzerExtended and the queries that go through it         *)
(* (analyzer.py)                                                            *)

CacheTtl == 300
RecentWindow == 100
MaxTime == 304
MaxCacheLog == 2

CacheEntry(key, value, now) ==
    [timestamp |-> now, value |-> value, key |-> key]

\* mutant: an entry is still served at the age of the TTL
CacheGet_InclusiveTtl(cache, key, now) ==
    IF \E e \in cache : e.key = key
    THEN LET e == CHOOSE e \in cache : e.key = key
         IN IF now - e.timestamp <= CacheTtl
            THEN [result |-> e.value, cache |-> cache]
            ELSE [result |-> NoneV, cache |-> cache \ {e}]
    ELSE [result |-> NoneV, cache |-> cache]

\* _cache_get: what it returns and the cache it leaves
CacheGet(cache, key, now) ==
    IF \E e \in cache : e.key = key
    THEN LET e == CHOOSE e \in cache : e.key = key
         IN IF now - e.timestamp < CacheTtl
            THEN [result |-> e.value, cache |-> cache]
            ELSE [result |-> NoneV, cache |-> cache \ {e}]
    ELSE [result |-> NoneV, cache |-> cache]

\* _cache_set
CacheSet(cache, key, value, now) ==
    {e \in cache : e.key # key} \cup {CacheEntry(key, value, now)}

\* sorted(rows, key=lambda x: x.timestamp, reverse=True): a stable sort, rows
\* of one timestamp keep their order
SortedNewestFirst(rows) ==
    [k \in 1..Len(rows) |->
        rows[CHOOSE i \in 1..Len(rows) :
                k = 1 + Cardinality({j \in 1..Len(rows) :
                        \/ rows[j].timestamp > rows[i].timestamp
                        \/ rows[j].timestamp = rows[i].timestamp /\ j < i})]]

\* the frame of the cached queries: `if cached: return cached`, else the
\* computed list is stored and returned
CachedQuery(cache, key, now, computed) ==
    LET got == CacheGet(cache, key, now)
    IN IF Truthy(got.result)
       THEN [result |-> got.result, cache |-> got.cache,
             cached |-> got.result, read |-> got.cache]
       ELSE [result |-> Listed(computed),
             cache |-> CacheSet(got.cache, key, Listed(computed), now),
             cached |-> got.result, read |-> got.cache]

\* the body of get_recent_buys and get_recent_sells below the cache lookup
RecentOfType(txs, wallet_address, transaction_type, limit) ==
    LET recent == GetRecentTransactions(txs, wallet_address, NoneV, NoneV,
                                        RecentWindow)
        chosen == SelectSeq(recent, LAMBDA tx :
                                tx.transaction_type = transaction_type)
    IN Limit(SortedNewestFirst(chosen), limit)

AnalyzerExtended_get_recent_buys(txs, cache, wallet_address, limit, now) ==
    CachedQuery(cache, <<"recent_buys", wallet_address, limit>>, now,
                RecentOfType(txs, wallet_address, "buy", limit))

AnalyzerExtended_get_recent_sells(txs, cache, wallet_address, limit, now) ==
    CachedQuery(cache, <<"recent_sells", wallet_address, limit>>, now,
                RecentOfType(txs, wallet_address, "sell", limit))

\* all_transactions of get_last_transactions: for each tracked wallet,
\* get_recent_transactions(wallet, limit), where limit is taken for token_id
RECURSIVE WalletTransactionsOf(_, _, _)
WalletTransactionsOf(txs, tracked, limit) ==
    IF tracked = <<>> THEN <<>>
    ELSE GetRecentTransactions(txs, Head(tracked), IntArg(limit), NoneV,
                               DefaultLimit)
         \o WalletTransactionsOf(txs, Tail(tracked), limit)

AnalyzerExtended_get_last_transactions(txs, ws, cache, limit, now) ==
    CachedQuery(cache, <<"last_transactions", "", limit>>, now,
                Limit(SortedNewestFirst(
                          WalletTransactionsOf(txs,
                              RowsOf(GetTrackedWallets(ws, TRUE)), limit)),
                      limit))

QueryCall(op, wallet_address, limit, query) ==
    /\ analyzer_cache' = query.cache
    /\ call' = [kind |-> "call", wallet_address |-> wallet_address,
                now |-> clock, op |-> op, result |-> query.result,
                cache |-> analyzer_cache, cached |-> query.cached,
                read |-> query.read, limit |-> limit]
    /\ UNCHANGED <<wallets, token_states, transactions, clock,
                   notification_chat_ids, detect_call, outbox, polls, monitor,
                   price_cache, notifications_enabled>>

\* handle_buys
RecentBuys(wallet_address, limit) ==
    QueryCall("get_recent_buys", wallet_address, limit,
              AnalyzerExtended_get_recent_buys(transactions, analyzer_cache,
                  wallet_address, limit, clock))

\* handle_sells
RecentSells(wallet_address, limit) ==
    QueryCall("get_recent_sells", wallet_address, limit,
              AnalyzerExtended_get_recent_sells(transactions, analyzer_cache,
                  wallet_address, limit, clock))

\* handle_last_transactions
LastTransactions(limit) ==
    QueryCall("get_last_transactions", "", limit,
              AnalyzerExtended_get_last_transactions(transactions, wallets,
                  analyzer_cache, limit, clock))

\* time passes while the bot is idle
Sleep(d) ==
    /\ clock + d <= MaxTime
    /\ clock' = clock + d
    /\ UNCHANGED <<wallets, token_states, transactions,
                   notification_chat_ids, detect_call, call, outbox, polls,
                   monitor, price_cache, notifications_enabled,
                   analyzer_cache>>

CacheInputs ==
    {<<"0xAB", "T1", "eth", "buy", 10, 2>>,
     <<"0xAB", "T1", "eth", "sell", 1, 120>>,
     <<"0xcd", "T1", "eth", "buy", 10, 2>>}
BuyLimits == {1}
LastLimits == {2}

CacheNext ==
    \/ \E in \in CacheInputs :
          Len(transactions) < MaxCacheLog /\ AddTransaction(in)
    \/ \E w \in Addresses : AddWallet(w, TRUE)
    \/ \E d \in {CacheTtl - 1, CacheTtl} : Sleep(d)
    \/ \E limit \in BuyLimits : RecentBuys("0xAB", limit)
    \/ RecentSells("0xAB", 1)
    \/ \E limit \in LastLimits : LastTransactions(limit)

SpecCache == InitCommon /\ [][CacheNext]_vars

IsQuery == call.kind = "call" /\ call.op \in
    {"get_recent_buys", "get_recent_sells", "get_last_transactions"}

\* the cache key of the last query
CallKey ==
    <<IF call.op = "get_recent_buys" THEN "recent_buys"
      ELSE IF call.op = "get_recent_sells" THEN "recent_sells"
      ELSE "last_transactions", call.wallet_address, call.limit>>

\* C25: the expiry of a cache entry is decided by the read: the read returns
\* the stored value only if it was written less than the TTL of 300 seconds
\* before; an entry of age 300 or more is removed by the read, which reports
\* a miss, as it does when there is no entry.
C25_ExpiryIsCheckedOnRead ==
    IsQuery =>
      /\ \A e \in call.cache :
           e.key = CallKey =>
             /\ call.now - e.timestamp < CacheTtl =>
                   call.cached = e.value /\ call.read = call.cache
             /\ call.now - e.timestamp >= CacheTtl =>
                   call.cached = NoneV /\ call.read = call.cache \ {e}
      /\ (\A e \in call.cache : e.key # CallKey) =>
             call.cached = NoneV /\ call.read = call.cache

\* a read finds an entry that is exactly 300 seconds old and removes it
C25_Witness ==
    /\ IsQuery
    /\ \E e \in call.cache :
          /\ e.key = CallKey
          /\ call.now - e.timestamp = CacheTtl
          /\ e \notin call.read
    /\ call.cached = NoneV

\* the query of the last call, computed without a cache
Uncached ==
    IF call.op = "get_recent_buys"
    THEN Listed(RecentOfType(transactions, call.wallet_address, "buy",
                             call.limit))
    ELSE IF call.op = "get_recent_sells"
    THEN Listed(RecentOfType(transactions, call.wallet_address, "sell",
                             call.limit))
    ELSE AnalyzerExtended_get_last_transactions(transactions, wallets, {},
                                                call.limit, call.now).result

\* C26: the cache is not relied upon for correctness: a cached query issued
\* after a transaction was recorded returns what the same query returns when
\* it is computed without the cache.
C26_CachedQueryEqualsUncached ==
    IsQuery => call.result = Uncached

\* the log rows of the tracked wallets
TrackedLog ==
    SelectSeq(transactions, LAMBDA row : row.wallet_address \in wallets)

\* C27: get_last_transactions(limit) returns the limit most recent
\* transactions of the union of the tracked wallets' logs, newest first and
\* at most limit of them.
C27_LastTransactionsAreTheMostRecent ==
    IsCallOf("get_last_transactions") =>
        call.result = Listed(Limit(SortedNewestFirst(TrackedLog), call.limit))

=============================================================================
